---- MODULE Spec2Model ----
(***************************************************************************)
(* Best-first graph search of src/search/a_star.py: astar_search with the  *)
(* three ordering policies (A*, weighted A*, greedy best-first).           *)
(*                                                                         *)
(* One behaviour is one invocation of astar_search on one task, one        *)
(* heuristic and one ordering policy, all three drawn in Init.             *)
(***************************************************************************)
EXTENDS Integers, Sequences, FiniteSets, TLC

\* ------------------------------------------------------------------ bounds
MaxChain == 5         \* longest linear chain task 0 -> 1 -> ... -> MaxChain
MaxH == 2             \* largest finite heuristic value of the general tasks
MaxWeight == 2        \* weights 1..MaxWeight of weighted A*

\* float("inf"): larger than every finite key the bounded tasks produce
Inf == 1000

\* ------------------------------------------------------------ float helpers
\* g + h and weight * h over the floats: anything with inf is inf
FAdd(a, b) == IF a = Inf \/ b = Inf THEN Inf ELSE a + b
FMul(w, h) == IF h = Inf THEN Inf ELSE w * h

\* ------------------------------------------------------------- task inputs
\* The general tasks: a graph has the edges FixedEdges and any subset of the
\* edges OptionalEdges; get_successor_states yields the successors of a state
\* in the order of EdgeUniverse.  The full graph is the diamond
\* 0 -> 1 -> 4, 0 -> 2 -> 3 -> 4 with the edge 4 -> 0 back to the initial state;
\* the two edges into 4 are the optional ones.  The edge 1 -> 3 belongs to the
\* square task alone: 0 -> 1 -> 3 and 0 -> 2 -> 3, two paths of equal length.
EdgeUniverse ==
  << <<0, 1>>, <<0, 2>>, <<1, 4>>, <<2, 3>>, <<3, 4>>, <<4, 0>>, <<1, 3>> >>

FixedEdges == {1, 2, 4, 6}
OptionalEdges == {3, 5}
SquareEdges == {1, 2, 4, 7}

GenStates == 0 .. 4
ChainStates == 0 .. MaxChain
RouteStates == 0 .. 6
States == GenStates \cup ChainStates \cup RouteStates

RECURSIVE SuccOf(_, _, _)
\* the targets of the edges of universe positions i.. that leave s and are in es
SuccOf(s, es, i) ==
  IF i > Len(EdgeUniverse) THEN << >>
  ELSE IF i \in es /\ EdgeUniverse[i][1] = s
       THEN << EdgeUniverse[i][2] >> \o SuccOf(s, es, i + 1)
       ELSE SuccOf(s, es, i + 1)

GeneralTask(es, gs) ==
  [ initial_state |-> 0,
    goals |-> gs,
    succ |-> [s \in States |-> IF s \in GenStates THEN SuccOf(s, es, 1) ELSE << >>] ]

ChainTask(n) ==
  [ initial_state |-> 0,
    goals |-> {n},
    succ |-> [s \in States |-> IF s < n THEN << s + 1 >> ELSE << >>] ]

\* two routes to the goal 6: 0 -> 1 -> 6 and 0 -> 2 -> 3 -> 4 -> 5 -> 6
TwoRouteTask ==
  [ initial_state |-> 0,
    goals |-> {6},
    succ |-> [s \in States |->
                CASE s = 0 -> << 1, 2 >>
                  [] s = 1 -> << 6 >>
                  [] s \in 2 .. 5 -> << s + 1 >>
                  [] OTHER -> << >>] ]

ChainH(n) == [s \in States |-> IF s <= n THEN n - s ELSE 0]

GoalChoices == { {}, {4} }
SolvedGoalChoices == { {0}, {0, 4} }
HVals == (0 .. MaxH) \cup {Inf}
GeneralH == { hf \in [States -> HVals] : \A s \in States \ GenStates : hf[s] = 0 }

Policies ==
  { [kind |-> "astar", weight |-> 1], [kind |-> "greedy", weight |-> 1] }
  \cup { [kind |-> "weighted", weight |-> w] : w \in 1 .. MaxWeight }

\* ------------------------------------------------------------------- state
VARIABLES
  task,             \* the task argument: initial_state, goals, succ
  hfun,             \* the heuristic argument, by state of the node
  policy,           \* the make_open_entry argument
  nodes,            \* every SearchNode created so far; a node is its index
  open,             \* the heap of entries <<f, h, tiebreaker, node>>
  state_cost,       \* dict: state -> lowest g pushed for it
  node_tiebreaker,
  besth,
  counter,
  expansions,
  pc,               \* "loop" | "expand" | "plan" | "none"
  pop_node,         \* the node being expanded (0: none)
  pending,          \* the successors the for loop has still to process
  solution,         \* the returned operator sequence once pc = "plan"
  pushed,           \* history: every entry given to heappush, in push order
  expanded          \* history: the nodes that passed the staleness check, in order

inputs == << task, hfun, policy >>
history == << pushed, expanded >>
vars == << task, hfun, policy, nodes, open, state_cost, node_tiebreaker, besth,
           counter, expansions, pc, pop_node, pending, solution, pushed, expanded >>

\* ------------------------------------------------------- task collaborator
goal_reached(s) == s \in task.goals

\* sequence of <<operator, state>>; the operator <<s, k>> is the k-th of s
get_successor_states(s) ==
  [k \in 1 .. Len(task.succ[s]) |-> << <<s, k>>, task.succ[s][k] >>]

heuristic(n) == hfun[n.state]

\* ------------------------------------------------------------- searchspace
make_root_node(s) == [state |-> s, parent |-> 0, action |-> <<0, 0>>, g |-> 0]

make_child_node(parent, op, s) ==
  [state |-> s, parent |-> parent, action |-> op, g |-> nodes[parent].g + 1]

RECURSIVE extract_solution(_)
\* walk the parent references to the root, operators in root-to-node order
extract_solution(n) ==
  IF nodes[n].parent = 0 THEN << >>
  ELSE Append(extract_solution(nodes[n].parent), nodes[n].action)

\* -------------------------------------------------------- ordering policies
\* the key forgets the accumulated cost g
ordered_node_astar_no_g(g, h, tb, n) == << h, h, tb, n >>

\* the tiebreaker placed before h in the tuple
ordered_node_astar_tie_first(g, h, tb, n) == << FAdd(g, h), tb, h, n >>

ordered_node_astar(g, h, tb, n) == << FAdd(g, h), h, tb, n >>

\* the weighted key forgets the accumulated cost g
ordered_node_weighted_no_g(weight, g, h, tb, n) == << FMul(weight, h), h, tb, n >>

ordered_node_weighted_astar(weight, g, h, tb, n) == << FAdd(g, FMul(weight, h)), h, tb, n >>

\* the greedy key computed as the A* key
ordered_node_greedy_as_astar(g, h, tb, n) == << FAdd(g, h), h, tb, n >>

ordered_node_greedy_best_first(g, h, tb, n) == << h, h, tb, n >>

make_open_entry(g, h, tb, n) ==
  CASE policy.kind = "astar" -> ordered_node_astar(g, h, tb, n)
    [] policy.kind = "weighted" -> ordered_node_weighted_astar(policy.weight, g, h, tb, n)
    [] policy.kind = "greedy" -> ordered_node_greedy_best_first(g, h, tb, n)

\* ------------------------------------------------------------------- heapq
\* tuple comparison of two entries on (f, h, tiebreaker)
EntryLess(a, b) ==
  \/ a[1] < b[1]
  \/ a[1] = b[1] /\ a[2] < b[2]
  \/ a[1] = b[1] /\ a[2] = b[2] /\ a[3] < b[3]

\* the entry heappop returns
HeapMin(heap) == CHOOSE e \in heap : \A o \in heap \ {e} : EntryLess(e, o)

\* no duplicate detection: every successor is pushed
ImprovesAlways(new_state, new_g) == TRUE

\* "and" for "or not": only states already in the table are pushed
ImprovesKnownOnly(new_state, new_g) ==
  IF new_state \notin DOMAIN state_cost THEN FALSE ELSE new_g < state_cost[new_state]

\* the comparison turned round: a costlier path replaces a cheaper one
ImprovesWorse(new_state, new_g) ==
  IF new_state \notin DOMAIN state_cost THEN TRUE ELSE new_g > state_cost[new_state]

\* the comparison with <= for <
ImprovesLeq(new_state, new_g) ==
  IF new_state \notin DOMAIN state_cost THEN TRUE ELSE new_g <= state_cost[new_state]

\* line 236: new_state not in state_cost or new_g < state_cost[new_state]
Improves(new_state, new_g) ==
  IF new_state \notin DOMAIN state_cost THEN TRUE ELSE new_g < state_cost[new_state]

\* the dead-end test left out
DeadEndNever(h) == FALSE

\* line 231: h_neighbor == float("inf")
DeadEnd(h) == h = Inf

\* the loop counter taken for the tiebreaker
NextTiebreakerCounter == counter + 1

\* the tiebreaker is not increased
NextTiebreakerSame == node_tiebreaker

\* line 240: node_tiebreaker += 1
NextTiebreaker == node_tiebreaker + 1

\* state_cost.get(s, float("inf"))
CostGet(s) == IF s \in DOMAIN state_cost THEN state_cost[s] ELSE Inf

\* the loop stops one entry early
LoopCondOffByOne == Cardinality(open) > 1

\* line 179: while open
LoopCond == open # {}

\* the goal test taken from the heuristic value of the popped entry
GoalHitByH(e) == e[2] = 0

\* line 213: task.goal_reached(pop_state), e the popped entry
GoalHit(e) == goal_reached(nodes[e[4]].state)

\* the staleness test left out
StaleNever(n) == FALSE

\* the staleness test with <= for <
StaleLeq(n) == CostGet(nodes[n].state) <= nodes[n].g

\* line 202: a cheaper path to the node's state was found after it was pushed
Stale(n) == CostGet(nodes[n].state) < nodes[n].g

\* -------------------------------------------------------------------- Init
InitSearch ==
  /\ nodes = << make_root_node(task.initial_state) >>
  /\ state_cost = (task.initial_state :> 0)
  /\ node_tiebreaker = 0
  /\ open = { make_open_entry(0, hfun[task.initial_state], 0, 1) }
  /\ besth = Inf
  /\ counter = 0
  /\ expansions = 0
  /\ pc = "loop"
  /\ pop_node = 0
  /\ pending = << >>
  /\ solution = << >>
  /\ pushed = << make_open_entry(0, hfun[task.initial_state], 0, 1) >>
  /\ expanded = << >>

\* the root is popped while it is alone in the frontier and is never pushed
\* again (its g is 0): of its heuristic value the general tasks keep 0 and
\* +inf, and on the full graph the largest finite value as well
InitGeneral ==
  /\ \E es \in SUBSET OptionalEdges, gs \in GoalChoices :
       /\ task = GeneralTask(FixedEdges \cup es, gs)
       /\ hfun \in { hf \in GeneralH :
                      hf[0] \in {0, Inf} \cup (IF es = OptionalEdges THEN {MaxH} ELSE {}) }
  /\ policy \in Policies
  /\ InitSearch

InitChain ==
  /\ \E n \in 0 .. MaxChain : task = ChainTask(n) /\ hfun = ChainH(n)
  /\ policy \in Policies
  /\ InitSearch

\* the initial state is already a goal state; the heuristic varies on it alone
InitSolved ==
  /\ \E gs \in SolvedGoalChoices : task = GeneralTask(FixedEdges \cup OptionalEdges, gs)
  /\ hfun \in { hf \in GeneralH : \A s \in GenStates \ {0} : hf[s] = 0 }
  /\ policy \in Policies
  /\ InitSearch

\* the square: state 3 is reached by two paths of the same length
InitSquare ==
  /\ \E gs \in { {}, {3} } : task = GeneralTask(SquareEdges, gs)
  /\ hfun \in { hf \in GeneralH : hf[4] = 0 }
  /\ policy \in Policies
  /\ InitSearch

\* the two-route task; the heuristic varies on the first state of each route
InitTwoRoute ==
  /\ task = TwoRouteTask
  /\ hfun \in { hf \in [States -> HVals] : \A s \in States \ {1, 2} : hf[s] = 0 }
  /\ policy \in Policies
  /\ InitSearch

Init == InitGeneral \/ InitSolved \/ InitChain \/ InitSquare \/ InitTwoRoute

\* ----------------------------------------------------------------- actions
\* lines 185-190: heappop and the besth update, shared by the three pops
Popped(e) ==
  /\ pc = "loop"
  /\ LoopCond
  /\ e = HeapMin(open)
  /\ open' = open \ {e}
  /\ besth' = IF e[2] < besth THEN e[2] ELSE besth

\* lines 202-203: the popped entry is stale
Discard ==
  \E e \in open :
    /\ Popped(e)
    /\ Stale(e[4])
    /\ UNCHANGED << inputs, nodes, state_cost, node_tiebreaker, counter, expansions,
                    pc, pop_node, pending, solution, history >>

\* the goal test placed before the expansions counter is increased
ReturnSolutionUncounted ==
  \E e \in open :
    /\ Popped(e)
    /\ ~ Stale(e[4])
    /\ GoalHit(e)
    /\ solution' = extract_solution(e[4])
    /\ pc' = "plan"
    /\ pop_node' = e[4]
    /\ expanded' = Append(expanded, e[4])
    /\ UNCHANGED << inputs, nodes, state_cost, node_tiebreaker, counter, expansions,
                    pending, pushed >>

\* lines 207-214: the popped node is a goal node
ReturnSolution ==
  \E e \in open :
    /\ Popped(e)
    /\ ~ Stale(e[4])
    /\ GoalHit(e)
    /\ expansions' = expansions + 1
    /\ solution' = extract_solution(e[4])
    /\ pc' = "plan"
    /\ pop_node' = e[4]
    /\ expanded' = Append(expanded, e[4])
    /\ UNCHANGED << inputs, nodes, state_cost, node_tiebreaker, counter, pending,
                    pushed >>

\* lines 207-220: the popped node is expanded
Expand ==
  \E e \in open :
    /\ Popped(e)
    /\ ~ Stale(e[4])
    /\ ~ GoalHit(e)
    /\ expansions' = expansions + 1
    /\ pop_node' = e[4]
    /\ pending' = get_successor_states(nodes[e[4]].state)
    /\ pc' = "expand"
    /\ expanded' = Append(expanded, e[4])
    /\ UNCHANGED << inputs, nodes, state_cost, node_tiebreaker, counter, solution,
                    pushed >>

\* the cost table is updated before the dead-end test
PruneRecorded ==
  /\ pc = "expand"
  /\ pending # << >>
  /\ LET op == Head(pending)[1]
         new_state == Head(pending)[2]
         new_g == nodes[pop_node].g + 1
         neighbor_node == make_child_node(pop_node, op, new_state)
     IN  /\ DeadEnd(heuristic(neighbor_node))
         /\ nodes' = Append(nodes, neighbor_node)
         /\ state_cost' = IF Improves(new_state, new_g)
                          THEN [s \in DOMAIN state_cost \cup {new_state} |->
                                  IF s = new_state THEN new_g ELSE state_cost[s]]
                          ELSE state_cost
  /\ pending' = Tail(pending)
  /\ UNCHANGED << inputs, open, node_tiebreaker, besth, counter,
                  expansions, pc, pop_node, solution, history >>

\* lines 220-232: the next successor is a dead end
Prune ==
  /\ pc = "expand"
  /\ pending # << >>
  /\ LET op == Head(pending)[1]
         new_state == Head(pending)[2]
         neighbor_node == make_child_node(pop_node, op, new_state)
     IN  /\ DeadEnd(heuristic(neighbor_node))
         /\ nodes' = Append(nodes, neighbor_node)
  /\ pending' = Tail(pending)
  /\ UNCHANGED << inputs, open, state_cost, node_tiebreaker, besth, counter,
                  expansions, pc, pop_node, solution, history >>

\* lines 220-247: the next successor improves on the cost table and is pushed
Push ==
  /\ pc = "expand"
  /\ pending # << >>
  /\ LET op == Head(pending)[1]
         new_state == Head(pending)[2]
         new_g == nodes[pop_node].g + 1
         neighbor_node == make_child_node(pop_node, op, new_state)
         h_neighbor == heuristic(neighbor_node)
     IN  /\ ~ DeadEnd(h_neighbor)
         /\ Improves(new_state, new_g)
         /\ nodes' = Append(nodes, neighbor_node)
         /\ state_cost' = [s \in DOMAIN state_cost \cup {new_state} |->
                             IF s = new_state THEN new_g ELSE state_cost[s]]
         /\ node_tiebreaker' = NextTiebreaker
         /\ open' = open \cup
              { make_open_entry(neighbor_node.g, h_neighbor, NextTiebreaker,
                                Len(nodes) + 1) }
         /\ pushed' = Append(pushed,
              make_open_entry(neighbor_node.g, h_neighbor, NextTiebreaker,
                              Len(nodes) + 1))
  /\ pending' = Tail(pending)
  /\ UNCHANGED << inputs, besth, counter, expansions, pc, pop_node, solution,
                  expanded >>

\* lines 220-236: the next successor is no improvement
Skip ==
  /\ pc = "expand"
  /\ pending # << >>
  /\ LET op == Head(pending)[1]
         new_state == Head(pending)[2]
         new_g == nodes[pop_node].g + 1
         neighbor_node == make_child_node(pop_node, op, new_state)
     IN  /\ ~ DeadEnd(heuristic(neighbor_node))
         /\ ~ Improves(new_state, new_g)
         /\ nodes' = Append(nodes, neighbor_node)
  /\ pending' = Tail(pending)
  /\ UNCHANGED << inputs, open, state_cost, node_tiebreaker, besth, counter,
                  expansions, pc, pop_node, solution, history >>

\* line 250: the for loop is over
EndExpand ==
  /\ pc = "expand"
  /\ pending = << >>
  /\ counter' = counter + 1
  /\ pc' = "loop"
  /\ UNCHANGED << inputs, nodes, open, state_cost, node_tiebreaker, besth,
                  expansions, pop_node, pending, solution, history >>

\* lines 179, 254-256: the heap is empty
ReturnNone ==
  /\ pc = "loop"
  /\ ~ LoopCond
  /\ pc' = "none"
  /\ UNCHANGED << inputs, nodes, open, state_cost, node_tiebreaker, besth, counter,
                  expansions, pop_node, pending, solution, history >>

Next ==
  \/ Discard
  \/ ReturnSolution
  \/ Expand
  \/ Prune
  \/ Push
  \/ Skip
  \/ EndExpand
  \/ ReturnNone

Spec == Init /\ [][Next]_vars

\* the call runs on one thread with no suspension point: a step that can be
\* taken is taken
LiveSpec == Spec /\ WF_vars(Next)

\* ------------------------------------------------------- graph of the task
SuccSet(s) == { task.succ[s][k] : k \in 1 .. Len(task.succ[s]) }

RECURSIVE BFSDist(_, _, _, _)
\* the least number of operators from a state of layer to a state of targets,
\* layer being the states at distance d from the start; Inf if there is none
BFSDist(layer, seen, targets, d) ==
  IF layer \cap targets # {} THEN d
  ELSE IF layer = {} THEN Inf
  ELSE LET nxt == (UNION { SuccSet(s) : s \in layer }) \ seen
       IN  BFSDist(nxt, seen \cup nxt, targets, d + 1)

\* true remaining operator count from s to a goal state
HStar(s) == BFSDist({s}, {s}, task.goals, 0)

\* true shortest operator distance from the initial state to s
GStar(s) == BFSDist({task.initial_state}, {task.initial_state}, {s}, 0)

Reachable == { s \in States : GStar(s) # Inf }
Solvable == HStar(task.initial_state) # Inf
Admissible == \A s \in States : hfun[s] <= HStar(s)
Consistent ==
  /\ \A s \in task.goals : hfun[s] = 0
  /\ \A s \in States : \A t \in SuccSet(s) : hfun[s] <= FAdd(1, hfun[t])

Terminated == pc \in {"plan", "none"}

\* ------------------------------------------------------------------ claims
InitialState == task.initial_state

\* C1: with the A* policy and an admissible heuristic, on every task with a
\* reachable goal the search ends by returning an operator sequence whose
\* length is the true shortest operator count from the initial state to a goal.
AStarOptimal ==
  (Terminated /\ policy.kind = "astar" /\ Admissible /\ Solvable)
    => (pc = "plan" /\ Len(solution) = HStar(InitialState))

\* an A* run with an admissible, inconsistent heuristic has returned a shortest
\* sequence after re-pushing the goal state: its first, longer entry is still
\* in the frontier
AStarOptimalWitness ==
  /\ pc = "plan" /\ policy.kind = "astar" /\ Admissible /\ ~ Consistent
  /\ Len(solution) = HStar(InitialState)
  /\ \E e \in open : goal_reached(nodes[e[4]].state) /\ nodes[e[4]].g > Len(solution)

RECURSIVE ApplyPlan(_, _)
\* the state reached by applying ops in order from s along successor edges;
\* -1 if an operator is not one of the successor edges of the state it meets
ApplyPlan(s, ops) ==
  IF ops = << >> THEN s
  ELSE LET op == Head(ops)
       IN  IF s # -1 /\ op[1] = s /\ op[2] \in 1 .. Len(task.succ[s])
           THEN ApplyPlan(task.succ[s][op[2]], Tail(ops))
           ELSE -1

\* C3: a returned operator sequence, applied in order from the initial state,
\* follows successor edges and ends in a goal state, and its length is the g
\* of the goal node that was popped.
PlanValid ==
  pc = "plan" =>
    /\ ApplyPlan(InitialState, solution) # -1
    /\ goal_reached(ApplyPlan(InitialState, solution))
    /\ ApplyPlan(InitialState, solution) = nodes[pop_node].state
    /\ Len(solution) = nodes[pop_node].g

\* a sequence of three operators was returned
PlanValidWitness ==
  /\ pc = "plan" /\ Len(solution) = 3
  /\ goal_reached(ApplyPlan(InitialState, solution))

\* ---- C2
\* the largest number of successors of a state
MaxOutDegree ==
  LET lens == { Len(task.succ[s]) : s \in States }
  IN  CHOOSE m \in lens : \A l \in lens : l <= m

\* what the cost table can still lose: an absent state counts as the number of states
Potential ==
  LET cap == Cardinality(States)
      missing == States \ DOMAIN state_cost
      RECURSIVE Sum(_)
      Sum(ss) == IF ss = {} THEN 0
                 ELSE LET x == CHOOSE x \in ss : TRUE IN state_cost[x] + Sum(ss \ {x})
  IN  Sum(DOMAIN state_cost) + cap * Cardinality(missing)

\* a measure of the work left: pushes still possible, entries to pop,
\* successors to process, position in the loop
Rank ==
  LET b == MaxOutDegree + 2
      pcRank == CASE pc = "loop" -> 1 [] pc = "expand" -> 2 [] OTHER -> 0
  IN  (b + 1) * Potential + b * Cardinality(open) + Len(pending) + pcRank

\* C2: for each of the three ordering policies and any heuristic, on a task
\* with finitely many reachable states the loop terminates: every step lowers
\* a natural-valued measure, and the run ends with a returned sequence or with
\* the frontier empty.
Terminates ==
  /\ [][Rank' < Rank /\ Rank' >= 0]_vars
  /\ <>Terminated
  /\ [](pc = "none" => open = {})

\* a weighted A* run over the graph with the cycle through 4 -> 0 has ended
\* after expanding state 4
TerminatesWitness ==
  /\ Terminated /\ policy.kind = "weighted"
  /\ 0 \in SuccSet(4) /\ 4 \in DOMAIN state_cost /\ counter >= 4

\* ---- C4
\* C4: when no goal state is reachable, whatever the policy and the heuristic,
\* the search never returns a sequence, returns "no solution" only with the
\* frontier empty, and has a step to take until it has returned (no error).
UnsolvableEndsNone ==
  ~ Solvable =>
    /\ pc # "plan"
    /\ pc = "none" => open = {}
    /\ ~ Terminated => ENABLED Next

\* "no solution" was returned for an unsolvable task after three expansions
UnsolvableEndsNoneWitness ==
  ~ Solvable /\ pc = "none" /\ expansions >= 3 /\ open = {}

\* ---- C5
\* the heuristic is +infinity only on states from which no goal is reachable
HSafe == \A s \in States : hfun[s] = Inf => HStar(s) = Inf

\* C5: for every policy and every heuristic that is +infinity only where no
\* goal is reachable, if a goal is reachable from the initial state the search
\* eventually returns an operator sequence and never returns "no solution".
SolvableReturnsPlan ==
  /\ (Solvable /\ HSafe) ~> (pc = "plan")
  /\ []((Solvable /\ HSafe) => pc # "none")

\* greedy search with an inadmissible heuristic that prunes a reachable dead
\* end has returned a sequence
SolvableReturnsPlanWitness ==
  /\ pc = "plan" /\ Solvable /\ HSafe /\ ~ Admissible /\ policy.kind = "greedy"
  /\ \E s \in Reachable : hfun[s] = Inf

\* ---- C6
\* C6: when the initial state is a goal state, for every policy and every
\* heuristic value of the root the search returns the empty sequence at the
\* root's goal check: no successor is generated, no child is created, pushed
\* or recorded in the cost table.
SolvedAtRoot ==
  goal_reached(InitialState) =>
    /\ pc \in {"loop", "plan"}
    /\ Len(nodes) = 1
    /\ DOMAIN state_cost = {InitialState}
    /\ node_tiebreaker = 0
    /\ pc = "loop" => /\ open = { make_open_entry(0, hfun[InitialState], 0, 1) }
                      /\ ENABLED ReturnSolution
    /\ pc = "plan" => /\ solution = << >>
                      /\ pop_node = 1
                      /\ open = {}
                      /\ expansions = 1

\* the empty sequence was returned for a root whose heuristic value is +infinity
SolvedAtRootWitness ==
  /\ goal_reached(InitialState) /\ hfun[InitialState] = Inf
  /\ pc = "plan" /\ solution = << >>

\* ---- C7
SuccessorStates == UNION { SuccSet(s) : s \in States }
FrontierStates == { nodes[e[4]].state : e \in open }
Recorded(s) == s \in DOMAIN state_cost \/ s \in FrontierStates

\* C7 as stated: no successor state with heuristic +infinity is a key of the
\* cost table or the state of a frontier entry.
DeadEndNeverRecorded ==
  \A s \in SuccessorStates : hfun[s] = Inf => ~ Recorded(s)

\* C7 amended: no successor state with heuristic +infinity other than the
\* initial state is a key of the cost table or the state of a frontier entry.
DeadEndChildNeverRecorded ==
  \A s \in SuccessorStates \ {InitialState} : hfun[s] = Inf => ~ Recorded(s)

\* the root was expanded and its successor 1, a dead end, was pruned while
\* its successor 2 was pushed
DeadEndChildNeverRecordedWitness ==
  /\ pc = "loop" /\ counter = 1
  /\ hfun[1] = Inf /\ 1 \in SuccSet(InitialState) /\ ~ Recorded(1)
  /\ Recorded(2)

\* ---- C8
\* the full graph, the diamond 0 -> 1 -> 4, 0 -> 2 -> 3 -> 4, with goal 4
DivergenceTask == GeneralTask(FixedEdges \cup OptionalEdges, {4})
\* admissible and misleading: the short branch looks worse than the long one
DivergenceH == [s \in States |-> IF s = 1 THEN 1 ELSE 0]

\* C8: on the diamond task with this admissible heuristic greedy best-first
\* returns 3 operators, strictly more than the shortest 2, and A* returns 2.
GreedyDiverges ==
  (task = DivergenceTask /\ hfun = DivergenceH /\ Terminated
     /\ policy.kind \in {"greedy", "astar"})
    => /\ Admissible
       /\ pc = "plan"
       /\ HStar(InitialState) = 2
       /\ policy.kind = "greedy" => Len(solution) = 3
       /\ policy.kind = "astar" => Len(solution) = 2

\* greedy best-first has returned its longer sequence on the diamond task
GreedyDivergesWitness ==
  /\ task = DivergenceTask /\ hfun = DivergenceH /\ policy.kind = "greedy"
  /\ pc = "plan" /\ Len(solution) > HStar(InitialState)

\* ---- C9
IsChain(n) == task = ChainTask(n) /\ hfun = ChainH(n)

\* C9: on the linear chain 0..N with goal N and h = N - state, A* returns
\* exactly [op_0, ..., op_(N-1)] and makes exactly N + 1 expansions.
ChainExact ==
  \A n \in 0 .. MaxChain :
    (IsChain(n) /\ policy.kind = "astar" /\ Terminated)
      => /\ pc = "plan"
         /\ solution = [i \in 1 .. n |-> << i - 1, 1 >>]
         /\ expansions = n + 1

\* the chain of 5 operators: 5 operators returned after 6 expansions
ChainExactWitness ==
  /\ IsChain(5) /\ policy.kind = "astar" /\ pc = "plan"
  /\ Len(solution) = 5 /\ expansions = 6

\* ---- C10
EnabledCount ==
  (IF ENABLED Discard THEN 1 ELSE 0) + (IF ENABLED ReturnSolution THEN 1 ELSE 0)
  + (IF ENABLED Expand THEN 1 ELSE 0) + (IF ENABLED Prune THEN 1 ELSE 0)
  + (IF ENABLED Push THEN 1 ELSE 0) + (IF ENABLED Skip THEN 1 ELSE 0)
  + (IF ENABLED EndExpand THEN 1 ELSE 0) + (IF ENABLED ReturnNone THEN 1 ELSE 0)

\* C10: the run is a function of its inputs: any two frontier entries are
\* strictly ordered on (f, h, tiebreaker), so each pop has one outcome, and in
\* every state at most one step of the search can be taken.
Deterministic ==
  /\ \A a, b \in open : a # b => EntryLess(a, b) \/ EntryLess(b, a)
  /\ EnabledCount <= 1

\* two frontier entries tie on f and h and are ordered by the tiebreaker alone
DeterministicWitness ==
  /\ pc = "loop"
  /\ \E a, b \in open : a # b /\ a[1] = b[1] /\ a[2] = b[2] /\ a[3] < b[3]

\* ---- C11
NodeState(n) == nodes[n].state
NodeG(n) == nodes[n].g
ExpandedNodes == { expanded[i] : i \in 1 .. Len(expanded) }
\* the pushed entries that were popped and neither goal-tested nor expanded
DiscardedEntries ==
  { pushed[k] : k \in 1 .. Len(pushed) } \ (open \cup { e \in { pushed[k] : k \in 1 .. Len(pushed) } : e[4] \in ExpandedNodes })

\* C11: every node that is goal-tested or expanded has g equal to the cost
\* table's value for its state; a frontier entry for a state for which a
\* smaller g was pushed has g above the table's value, and an entry popped in
\* that condition is discarded: only it leaves the frontier, the cost table,
\* the tiebreaker counter and the position in the loop stay as they are.
StaleDiscarded ==
  /\ [][expanded' # expanded =>
          LET n == expanded'[Len(expanded')]
          IN  NodeState(n) \in DOMAIN state_cost /\ NodeG(n) = state_cost[NodeState(n)]]_vars
  /\ [](\A e \in open : \A k \in 1 .. Len(pushed) :
          (NodeState(pushed[k][4]) = NodeState(e[4]) /\ NodeG(pushed[k][4]) < NodeG(e[4]))
            => CostGet(NodeState(e[4])) < NodeG(e[4]))
  /\ [][(pc = "loop" /\ open # {}
          /\ CostGet(NodeState(HeapMin(open)[4])) < NodeG(HeapMin(open)[4]))
          => /\ open' = open \ {HeapMin(open)}
             /\ UNCHANGED << state_cost, node_tiebreaker, pc, nodes, history >>]_vars

\* an entry pushed with g = 3 for a state later pushed with g = 2 was popped
\* and discarded
StaleDiscardedWitness ==
  \E e \in DiscardedEntries :
    /\ NodeG(e[4]) = 3
    /\ state_cost[NodeState(e[4])] = 2

\* ---- C12
\* the g of every node pushed so far for state s, the root included
PushedG(s) ==
  { NodeG(pushed[k][4]) : k \in { j \in 1 .. Len(pushed) : NodeState(pushed[j][4]) = s } }

\* C12: for every key of the cost table the stored value is the least g among
\* the nodes pushed for that state so far, the root counting as a push with g = 0.
MonotonicTable ==
  \A s \in DOMAIN state_cost :
    /\ state_cost[s] \in PushedG(s)
    /\ \A g \in PushedG(s) : state_cost[s] <= g

\* a state was pushed with two different g and the table holds the lower one
MonotonicTableWitness ==
  \E s \in DOMAIN state_cost :
    /\ Cardinality(PushedG(s)) = 2
    /\ \E g \in PushedG(s) : state_cost[s] < g

\* ---- C13
\* C13: across every step no key of the cost table is removed and no value
\* increases, and every stored value is at least the true shortest operator
\* distance from the initial state to that state.
TableUpperBound ==
  /\ [](\A s \in DOMAIN state_cost : GStar(s) <= state_cost[s])
  /\ [][\A s \in DOMAIN state_cost :
          s \in DOMAIN state_cost' /\ state_cost'[s] <= state_cost[s]]_vars

\* the table holds for state 4 a value above its true distance: the longer
\* branch of the diamond reached it first
TableUpperBoundWitness ==
  /\ 4 \in DOMAIN state_cost
  /\ GStar(4) = 2
  /\ state_cost[4] = 3

\* ---- C14
\* the for loop is at a successor whose child gets heuristic value +infinity
AtDeadEndSuccessor ==
  pc = "expand" /\ pending # << >> /\ hfun[Head(pending)[2]] = Inf

\* C14: processing a successor whose child has heuristic value +infinity
\* leaves the frontier, the cost table and the tiebreaker counter unchanged
\* (and pushes nothing), whether or not the successor state is in the cost
\* table; the loop moves on to the next successor.
DeadEndNoEffect ==
  [][AtDeadEndSuccessor =>
       /\ UNCHANGED << open, state_cost, node_tiebreaker, pushed >>
       /\ pending' = Tail(pending)
       /\ pc' = "expand"]_vars

\* the child created last is a dead end whose state is absent from the cost
\* table, and the search went on to push a later successor
DeadEndNoEffectWitness ==
  /\ Len(nodes) >= 3
  /\ hfun[NodeState(Len(nodes) - 1)] = Inf
  /\ NodeState(Len(nodes) - 1) \notin DOMAIN state_cost
  /\ nodes[Len(nodes) - 1].parent = nodes[Len(nodes)].parent
  /\ \E e \in open : e[4] = Len(nodes)

\* ---- C15
\* the priority key of node n under the policy of the run (section 4.2)
PriorityKey(n) ==
  CASE policy.kind = "astar" -> FAdd(NodeG(n), hfun[NodeState(n)])
    [] policy.kind = "weighted" -> FAdd(NodeG(n), FMul(policy.weight, hfun[NodeState(n)]))
    [] policy.kind = "greedy" -> hfun[NodeState(n)]

\* the position of node n among the pushes
PushIndex(n) == CHOOSE k \in 1 .. Len(pushed) : pushed[k][4] = n

\* n comes before m in the order (priority_key, h, push order)
PopsBefore(n, m) ==
  \/ PriorityKey(n) < PriorityKey(m)
  \/ /\ PriorityKey(n) = PriorityKey(m)
     /\ hfun[NodeState(n)] < hfun[NodeState(m)]
  \/ /\ PriorityKey(n) = PriorityKey(m)
     /\ hfun[NodeState(n)] = hfun[NodeState(m)]
     /\ PushIndex(n) < PushIndex(m)

\* C15: each pop removes exactly one frontier entry, the one that is least
\* in the order (priority_key, h, tiebreaker): lower h first among equal keys,
\* earlier push first among equal keys and equal h.
PopTakesMinimum ==
  [][(pc = "loop" /\ open' # open) =>
       \E e \in open :
         /\ open' = open \ {e}
         /\ \A o \in open' : PopsBefore(e[4], o[4])]_vars

\* the node being expanded was popped ahead of an entry pushed before it with
\* the same priority key and a higher h
PopTakesMinimumWitness ==
  /\ pc = "expand"
  /\ \E o \in open :
       /\ PushIndex(o[4]) < PushIndex(pop_node)
       /\ PriorityKey(o[4]) = PriorityKey(pop_node)
       /\ hfun[NodeState(pop_node)] < hfun[NodeState(o[4])]

\* ---- C16
\* C16: the tiebreaker counter is increased exactly once per pushed child: it
\* equals the number of children pushed, the root's entry carries 0 and the
\* k-th pushed child's entry carries k, so all entries ever pushed, and any
\* two frontier entries, differ in their tiebreaker and the node itself is
\* never compared.
TiebreakersDistinct ==
  /\ node_tiebreaker = Len(pushed) - 1
  /\ \A k \in 1 .. Len(pushed) : pushed[k][3] = k - 1
  /\ \A a, b \in open : a # b => a[3] # b[3]
  /\ \A a, b \in open :
       (a[1] = b[1] /\ a[2] = b[2] /\ a[3] = b[3]) => a = b

\* four children were pushed; two entries equal on key and h wait in the frontier
TiebreakersDistinctWitness ==
  /\ Len(pushed) = 5 /\ node_tiebreaker = 4
  /\ \E a, b \in open : a[3] # b[3] /\ a[1] = b[1] /\ a[2] = b[2]

\* ---- C17
\* C17: successive pushes for the same state carry strictly decreasing g, and
\* successive expansions of the same state happen at strictly decreasing g, so
\* no state is expanded twice with the same g, whatever the policy and heuristic.
StrictlyDecreasingG ==
  /\ \A i, j \in 1 .. Len(pushed) :
       (i < j /\ NodeState(pushed[i][4]) = NodeState(pushed[j][4]))
         => NodeG(pushed[i][4]) > NodeG(pushed[j][4])
  /\ \A i, j \in 1 .. Len(expanded) :
       (i < j /\ NodeState(expanded[i]) = NodeState(expanded[j]))
         => NodeG(expanded[i]) > NodeG(expanded[j])

\* a state was expanded twice, the second time with a smaller g
StrictlyDecreasingGWitness ==
  \E i, j \in 1 .. Len(expanded) :
    /\ i < j
    /\ NodeState(expanded[i]) = NodeState(expanded[j])
    /\ NodeG(expanded[i]) > NodeG(expanded[j])

\* ---- C18
ExpandedOnceAtGStar ==
  /\ \A i, j \in 1 .. Len(expanded) :
       i # j => NodeState(expanded[i]) # NodeState(expanded[j])
  /\ \A i \in 1 .. Len(expanded) : NodeG(expanded[i]) = GStar(NodeState(expanded[i]))

NoStaleEntry == \A e \in open : ~ (CostGet(NodeState(e[4])) < NodeG(e[4]))

\* C18 as stated: with the A* policy and a consistent heuristic every state is
\* expanded at most once, at its true shortest distance, and no stale entry
\* is ever created.
ConsistentNoStale ==
  (policy.kind = "astar" /\ Consistent) => (ExpandedOnceAtGStar /\ NoStaleEntry)

\* C18 amended: with the A* policy and a consistent heuristic every state is
\* expanded at most once, and whenever a state is expanded its g equals the
\* true shortest distance from the initial state.
ConsistentExpandsOnce ==
  (policy.kind = "astar" /\ Consistent) => ExpandedOnceAtGStar

\* an A* run with a consistent heuristic has expanded four states, each once,
\* while a stale entry sits in the frontier
ConsistentExpandsOnceWitness ==
  /\ policy.kind = "astar" /\ Consistent
  /\ Len(expanded) = 4
  /\ ~ NoStaleEntry

\* ---- C19
\* C19: with weighted A* for an integer weight w >= 1 and an admissible
\* heuristic, on a task with a reachable goal the search returns a sequence
\* of at most w times the shortest operator count; for w = 1 every entry
\* pushed is the entry standard A* builds for the same node, so that the
\* frontier order, and with it the run, is that of standard A*.
WeightedBound ==
  /\ (Terminated /\ policy.kind = "weighted" /\ Admissible /\ Solvable)
       => /\ pc = "plan"
          /\ Len(solution) <= policy.weight * HStar(InitialState)
  /\ (policy.kind = "weighted" /\ policy.weight = 1)
       => \A k \in 1 .. Len(pushed) :
            pushed[k] = ordered_node_astar(NodeG(pushed[k][4]),
                                           hfun[NodeState(pushed[k][4])],
                                           k - 1, pushed[k][4])

\* weighted A* with weight 2 and an admissible heuristic has returned a
\* sequence longer than the shortest one, within the bound
WeightedBoundWitness ==
  /\ policy.kind = "weighted" /\ policy.weight = 2 /\ Admissible
  /\ pc = "plan"
  /\ Len(solution) > HStar(InitialState)
  /\ Len(solution) <= 2 * HStar(InitialState)

====
